---- MODULE Spec2Model ----
(***************************************************************************)
(* typed_csv: the quote-aware tokenizer (csvParseIter, csvEscapeCell), the *)
(* cell codec (parseCell, stringifyCell), the helpers (ensureUniqueNames,  *)
(* rowify), the document decoder (parseIter) and the line writer           *)
(* (iterGenerateCsv).                                                      *)
(*                                                                         *)
(* A JavaScript string is a sequence of one-character strings.             *)
(***************************************************************************)
EXTENDS Integers, Sequences, FiniteSets, TLC

VARIABLES
    text,               \* the csvString argument as passed by the caller
    argTypes,           \* typeof of the csvString and delimiter arguments
    delimiter,          \* csvParseIter option
    commentSymbol,      \* csvParseIter option
    warnings,           \* csvParseIter option
    csvString,          \* csvParseIter: the text not consumed yet
    row,                \* csvParseIter: the row being filled
    yielded,            \* csvParseIter: the rows yielded so far
    lineIndex,          \* csvParseIter: local lineIndex
    startingAtNewline,  \* csvParseIter: local startingAtNewline
    lastMatch,          \* csvParseIter: what the last iteration matched
    pc,                 \* csvParseIter: "start", "loop", "done", "error"
    written,            \* the row of string cells the text was written from, if any
    log,                \* console.warn calls, in order
    caller,             \* who drives csvParseIter: "direct" or "parseIter"
    pOptions,           \* parseIter options: warnings, asObjects
    ppc,                \* parseIter: "header", "body", "done" or what threw
    taken,              \* parseIter: tokenizer rows consumed so far
    headerRaw,          \* parseIter: the first tokenized row
    headersBefore,      \* parseIter: headers after the map, before ensureUniqueNames
    headers,            \* parseIter: headers (strings) as yielded
    out,                \* parseIter: the data rows yielded so far
    longRowWarningSent, \* parseIter: local longRowWarningSent
    nullAsEmpty,        \* cell codec: stringifyCell option
    cell,               \* cell codec: the raw cell handed to parseCell
    value,              \* cell codec: parseCell(cell)
    encoded,            \* cell codec: stringifyCell(value)
    decoded,            \* cell codec: parseCell(encoded)
    cpc,                \* cell codec: "raw", "parsed", "encoded", "decoded" or the call that threw
    names,              \* ensureUniqueNames: the argument
    unique,             \* ensureUniqueNames: the result
    again,              \* ensureUniqueNames: the result of applying it to unique
    npc,                \* ensureUniqueNames: "in", "out", "again"
    data,               \* rowify: the data argument, array rows and records
    defaultHeaders,     \* rowify: option defaultHeaders
    rows,               \* rowify: the rows returned, the header row first
    rpc                 \* rowify: "in", "out"

tokVars == <<text, argTypes, delimiter, commentSymbol, warnings, csvString, row,
             yielded, lineIndex, startingAtNewline, lastMatch, pc, written>>
docVars == <<caller, pOptions, ppc, taken, headerRaw, headersBefore, headers, out,
             longRowWarningSent>>
cellVars == <<nullAsEmpty, cell, value, encoded, decoded, cpc>>
nameVars == <<names, unique, again, npc>>
rowifyVars == <<data, defaultHeaders, rows, rpc>>
vars == <<tokVars, log, docVars, cellVars, nameVars, rowifyVars>>

-----------------------------------------------------------------------------
(* Bounds of the model.                                                    *)

MaxTextLen == 4
MaxBadTextLen == 1
MaxCellLen == 4
MaxRowCells == 2
MaxRowChars == 3
MaxNames == 3
MaxNameLen == 2
MaxDocLen == 4
MaxData == 2
MaxArrayLen == 2
MaxDefaults == 1
MaxTermLen == 3

-----------------------------------------------------------------------------
(* Characters and string helpers.                                          *)

QUOTE == "\""
LF == "\n"
CR == "\r"
TAB == "\t"
SPACE == " "
COMMA == ","

\* every string over alphabet S of length at most n
Strings(S, n) == UNION {[1..k -> S] : k \in 0..n}

Drop(s, n) == SubSeq(s, n + 1, Len(s))
Take(s, n) == SubSeq(s, 1, n)

Min(a, b) == IF a < b THEN a ELSE b
Max(a, b) == IF a > b THEN a ELSE b

\* String.prototype.startsWith
StartsWith(s, p) == Len(p) <= Len(s) /\ Take(s, Len(p)) = p

\* String.prototype.endsWith
EndsWith(s, p) == Len(p) <= Len(s) /\ Drop(s, Len(s) - Len(p)) = p

\* String.prototype.includes
Includes(s, p) == \E i \in 0..(Len(s) - Len(p)) : SubSeq(s, i + 1, i + Len(p)) = p

\* the white space String.prototype.trim removes (within the alphabets used)
WhiteSpace == {SPACE, TAB, LF, CR}

\* String.prototype.trim
Trim(s) ==
    LET keep == {i \in 1..Len(s) : s[i] \notin WhiteSpace}
    IN IF keep = {} THEN <<>>
       ELSE SubSeq(s, CHOOSE i \in keep : \A j \in keep : i <= j,
                      CHOOSE i \in keep : \A j \in keep : i >= j)

\* length of the longest prefix of s holding no character of stop:
\* the greedy match of [^...]* at the start of s
RunNotIn(s, stop) ==
    IF \E i \in 1..Len(s) : s[i] \in stop
    THEN (CHOOSE i \in 1..Len(s) : s[i] \in stop /\ \A j \in 1..(i - 1) : s[j] \notin stop) - 1
    ELSE Len(s)

\* length of the longest prefix of s made of characters of allowed
RunIn(s, allowed) ==
    IF \E i \in 1..Len(s) : s[i] \notin allowed
    THEN (CHOOSE i \in 1..Len(s) : s[i] \notin allowed /\ \A j \in 1..(i - 1) : s[j] \in allowed) - 1
    ELSE Len(s)

\* String.prototype.replace(/"/g, '""')
RECURSIVE DoubleQuotes(_)
DoubleQuotes(s) ==
    IF s = <<>> THEN <<>>
    ELSE (IF Head(s) = QUOTE THEN <<QUOTE, QUOTE>> ELSE <<Head(s)>>) \o DoubleQuotes(Tail(s))

\* String.prototype.replace(/""/g, '"')
RECURSIVE UndoubleQuotes(_)
UndoubleQuotes(s) ==
    IF s = <<>> THEN <<>>
    ELSE IF Len(s) >= 2 /\ s[1] = QUOTE /\ s[2] = QUOTE
         THEN <<QUOTE>> \o UndoubleQuotes(Drop(s, 2))
         ELSE <<Head(s)>> \o UndoubleQuotes(Tail(s))

\* Array.prototype.join with a separator string
RECURSIVE Join(_, _)
Join(cells, sep) ==
    IF cells = <<>> THEN <<>>
    ELSE IF Len(cells) = 1 THEN cells[1]
    ELSE cells[1] \o sep \o Join(Tail(cells), sep)

-----------------------------------------------------------------------------
(* Typed values.  A JavaScript value is a record: t its type, s its text   *)
(* (a string's characters, a regex's source, a Date's toISOString text),   *)
(* f a regex's flags, n its number.  Equality of records is the structural *)
(* value equality of the format: NaN equals NaN, Dates compare by instant, *)
(* regexes by source and flags.                                            *)

Val(t, s, f, n) == [t |-> t, s |-> s, f |-> f, n |-> n]
Undefined == Val("undefined", <<>>, <<>>, 0)
Null == Val("null", <<>>, <<>>, 0)
NaN == Val("nan", <<>>, <<>>, 0)
PlusInfinity == Val("infinity", <<>>, <<>>, 1)
MinusInfinity == Val("infinity", <<>>, <<>>, -1)
Bool(b) == Val("boolean", <<>>, <<>>, IF b THEN 1 ELSE 0)
Num(n) == Val("number", <<>>, <<>>, n)
Str(s) == Val("string", s, <<>>, 0)
RegExpValue(source, flags) == Val("regexp", source, flags, 0)
DateValue(iso) == Val("date", iso, <<>>, 0)
InvalidDate == Val("date", <<>>, <<>>, -1)
\* a call that did not return: the error thrown
Thrown(error) == Val("thrown", <<error>>, <<>>, 0)
IsThrown(v) == v.t = "thrown"

-----------------------------------------------------------------------------
(* Letters, digits and numbers as text.                                    *)

BACKSLASH == "\\"
Digits == <<"0", "1", "2", "3", "4", "5", "6", "7", "8", "9">>
IsDigit(c) == \E i \in 1..10 : Digits[i] = c
DigitValue(c) == (CHOOSE i \in 1..10 : Digits[i] = c) - 1
AllDigits(s) == \A i \in 1..Len(s) : IsDigit(s[i])

UpperCase == <<"A", "B", "C", "D", "E", "F", "G", "H", "I", "J", "K", "L", "M",
               "N", "O", "P", "Q", "R", "S", "T", "U", "V", "W", "X", "Y", "Z">>
LowerCase == <<"a", "b", "c", "d", "e", "f", "g", "h", "i", "j", "k", "l", "m",
               "n", "o", "p", "q", "r", "s", "t", "u", "v", "w", "x", "y", "z">>
\* the /i flag: compare after folding ASCII case
Lower(s) ==
    [i \in 1..Len(s) |->
        IF \E k \in 1..26 : UpperCase[k] = s[i]
        THEN LowerCase[CHOOSE k \in 1..26 : UpperCase[k] = s[i]]
        ELSE s[i]]

\* Number.prototype.toString of a natural number
RECURSIVE ToDecimal(_)
ToDecimal(n) ==
    IF n < 10 THEN <<Digits[n + 1]>>
    ELSE ToDecimal(n \div 10) \o <<Digits[(n % 10) + 1]>>

\* the number a string of decimal digits spells
RECURSIVE FromDecimal(_)
FromDecimal(s) ==
    IF s = <<>> THEN 0
    ELSE 10 * FromDecimal(Take(s, Len(s) - 1)) + DigitValue(s[Len(s)])

-----------------------------------------------------------------------------
(* The collaborators of the cell codec, as far as the cells drawn reach    *)
(* them: RegExp, Date, and the YAML engine (yaml.parse, yaml.stringify).   *)

RegExpFlags == <<"d", "g", "i", "m", "s", "u", "v", "y">>
\* the flags parseCell looks for: [igmusyv]
CellFlagChars == {"i", "g", "m", "u", "s", "y", "v"}

\* RegExp.prototype.source: the empty pattern reads (?:), an unescaped / is escaped
RECURSIVE EscapeRegExpSource(_)
EscapeRegExpSource(pattern) ==
    IF pattern = <<>> THEN <<>>
    ELSE IF pattern[1] = BACKSLASH /\ Len(pattern) >= 2
         THEN <<pattern[1], pattern[2]>> \o EscapeRegExpSource(Drop(pattern, 2))
    ELSE IF pattern[1] = "/" THEN <<BACKSLASH, "/">> \o EscapeRegExpSource(Tail(pattern))
    ELSE <<pattern[1]>> \o EscapeRegExpSource(Tail(pattern))

EmptyGroup == <<"(", "?", ":", ")">>

\* the pattern is one the RegExp constructor compiles: of the characters drawn only
\* the group characters can break it, and they are fine as the empty group (?:)
RECURSIVE PatternCompiles(_)
PatternCompiles(pattern) ==
    IF pattern = <<>> THEN TRUE
    ELSE IF StartsWith(pattern, EmptyGroup) THEN PatternCompiles(Drop(pattern, 4))
    ELSE IF pattern[1] = BACKSLASH THEN Len(pattern) >= 2 /\ PatternCompiles(Drop(pattern, 2))
    ELSE pattern[1] \notin {"(", ")", "?"} /\ PatternCompiles(Tail(pattern))

\* new RegExp(pattern, flags): a SyntaxError for a repeated flag, for u with v, or
\* for a pattern that does not compile
NewRegExp(pattern, flags) ==
    IF \/ \E i, j \in 1..Len(flags) : i # j /\ flags[i] = flags[j]
       \/ (\E i \in 1..Len(flags) : flags[i] = "u") /\ (\E i \in 1..Len(flags) : flags[i] = "v")
       \/ ~PatternCompiles(pattern)
    THEN Thrown("SyntaxError")
    ELSE RegExpValue(IF pattern = <<>> THEN EmptyGroup ELSE EscapeRegExpSource(pattern),
                     SelectSeq(RegExpFlags, LAMBDA c : \E i \in 1..Len(flags) : flags[i] = c))

\* RegExp.prototype.toString
RegExpToString(v) == <<"/">> \o v.s \o <<"/">> \o v.f

IsoMidnight == <<"T", "0", "0", ":", "0", "0", ":", "0", "0", ".", "0", "0", "0", "Z">>

\* YYYY-MM-DDTHH:mm:ss.sssZ, the text toISOString gives
IsIsoInstant(s) ==
    /\ Len(s) = 24
    /\ \A i \in {1, 2, 3, 4, 6, 7, 9, 10, 12, 13, 15, 16, 18, 19, 21, 22, 23} : IsDigit(s[i])
    /\ s[5] = "-" /\ s[8] = "-" /\ s[11] = "T" /\ s[14] = ":" /\ s[17] = ":"
    /\ s[20] = "." /\ s[24] = "Z"

\* the month and day of YYYY-MM-DD... name a day of the calendar
IsCalendarDay(s) ==
    LET y == FromDecimal(SubSeq(s, 1, 4))
        m == FromDecimal(SubSeq(s, 6, 7))
        d == FromDecimal(SubSeq(s, 9, 10))
        leap == (y % 4 = 0 /\ y % 100 # 0) \/ y % 400 = 0
    IN /\ m \in 1..12
       /\ d >= 1
       /\ d <= (IF m = 2 THEN (IF leap THEN 29 ELSE 28)
                ELSE IF m \in {4, 6, 9, 11} THEN 30 ELSE 31)

\* new Date(text) for the two spellings drawn: the date-only form YYYY-MM-DD (UTC
\* midnight) and the text toISOString gives; a month or day off the calendar gives
\* the Invalid Date.  A Date is held as its toISOString text, one text per instant.
NewDate(s) ==
    IF Len(s) = 10 /\ AllDigits(SubSeq(s, 1, 4)) /\ s[5] = "-" /\ AllDigits(SubSeq(s, 6, 7))
       /\ s[8] = "-" /\ AllDigits(SubSeq(s, 9, 10))
    THEN IF IsCalendarDay(s)
         THEN DateValue(s \o IsoMidnight)
         ELSE InvalidDate
    ELSE IF IsIsoInstant(s) /\ IsCalendarDay(s)
            /\ FromDecimal(SubSeq(s, 12, 13)) < 24 /\ FromDecimal(SubSeq(s, 15, 16)) < 60
            /\ FromDecimal(SubSeq(s, 18, 19)) < 60
    THEN DateValue(s)
    ELSE InvalidDate

\* Date.prototype.toISOString: a RangeError for the Invalid Date
DateToISOString(v) == IF v = InvalidDate THEN Thrown("RangeError") ELSE Str(v.s)

\* the plain scalars the YAML schema resolves to null and to booleans
YamlNulls == {<<"~">>, <<"n", "u", "l", "l">>, <<"N", "u", "l", "l">>, <<"N", "U", "L", "L">>}
YamlTrues == {<<"t", "r", "u", "e">>, <<"T", "r", "u", "e">>, <<"T", "R", "U", "E">>}
YamlFalses == {<<"f", "a", "l", "s", "e">>, <<"F", "a", "l", "s", "e">>, <<"F", "A", "L", "S", "E">>}
YamlInfs == {<<".", "i", "n", "f">>, <<".", "I", "n", "f">>, <<".", "I", "N", "F">>}
YamlNans == {<<".", "n", "a", "n">>, <<".", "N", "a", "N">>, <<".", "N", "A", "N">>}

\* implicit resolution of a plain scalar: null, bool, int, float, else a string
\* (the digits drawn spell decimal integers only)
YamlResolve(s) ==
    IF s = <<>> \/ s \in YamlNulls THEN Null
    ELSE IF s \in YamlTrues THEN Bool(TRUE)
    ELSE IF s \in YamlFalses THEN Bool(FALSE)
    ELSE IF AllDigits(s) /\ (s[1] # "0" \/ Len(s) = 1) THEN Num(FromDecimal(s))
    ELSE IF s \in YamlInfs \/ (s[1] = "+" /\ Tail(s) \in YamlInfs) THEN PlusInfinity
    ELSE IF s[1] = "-" /\ Tail(s) \in YamlInfs THEN MinusInfinity
    ELSE IF s \in YamlNans THEN NaN
    ELSE Str(s)

\* a single-quoted scalar after its opening quote: <<content, rest>>, or <<>> when
\* the closing quote is missing
RECURSIVE SingleQuoted(_, _)
SingleQuoted(s, acc) ==
    IF s = <<>> THEN <<>>
    ELSE IF s[1] # "'" THEN SingleQuoted(Tail(s), Append(acc, s[1]))
    ELSE IF Len(s) >= 2 /\ s[2] = "'" THEN SingleQuoted(Drop(s, 2), Append(acc, "'"))
    ELSE <<acc, Tail(s)>>

\* the escapes of a double-quoted scalar among the characters drawn
YamlEscaped(c) ==
    IF c \in {QUOTE, BACKSLASH, "/", SPACE} THEN <<c>>
    ELSE IF c = "n" THEN <<LF>>
    ELSE IF c = "f" THEN <<"\f">>
    ELSE <<>>

\* a double-quoted scalar after its opening quote: <<content, rest>>, or <<>> when
\* the closing quote is missing or an escape is unknown
RECURSIVE DoubleQuoted(_, _)
DoubleQuoted(s, acc) ==
    IF s = <<>> THEN <<>>
    ELSE IF s[1] = QUOTE THEN <<acc, Tail(s)>>
    ELSE IF s[1] # BACKSLASH THEN DoubleQuoted(Tail(s), Append(acc, s[1]))
    ELSE IF Len(s) < 2 \/ YamlEscaped(s[2]) = <<>> THEN <<>>
    ELSE DoubleQuoted(Drop(s, 2), acc \o YamlEscaped(s[2]))

\* yaml.parse of a one-line document without flow or block indicators: a quoted
\* scalar (anything but blanks after it is an error), or a plain scalar
YamlParse(s) ==
    LET lead == RunIn(s, {SPACE})
        body == Drop(s, lead)
    IN IF body = <<>> THEN Null
       ELSE IF body[1] = "'" \/ body[1] = QUOTE
       THEN LET q == IF body[1] = "'" THEN SingleQuoted(Tail(body), <<>>)
                     ELSE DoubleQuoted(Tail(body), <<>>)
            IN IF q = <<>> THEN Thrown("YAMLError")
               ELSE IF RunIn(q[2], {SPACE}) # Len(q[2]) THEN Thrown("YAMLError")
               ELSE Str(q[1])
       ELSE YamlResolve(Trim(body))

\* the number as yaml.stringify prints it
YamlNumber(v) ==
    IF v = NaN THEN <<".", "n", "a", "n">>
    ELSE IF v = PlusInfinity THEN <<".", "i", "n", "f">>
    ELSE IF v = MinusInfinity THEN <<"-", ".", "i", "n", "f">>
    ELSE IF v.n < 0 THEN <<"-">> \o ToDecimal(0 - v.n)
    ELSE ToDecimal(v.n)

\* strings the dumper always quotes (DEPRECATED_BOOLEANS_SYNTAX)
DeprecatedBooleans ==
    {<<"y">>, <<"Y">>, <<"y", "e", "s">>, <<"Y", "e", "s">>, <<"Y", "E", "S">>,
     <<"o", "n">>, <<"O", "n">>, <<"O", "N">>, <<"n">>, <<"N">>, <<"n", "o">>,
     <<"N", "o">>, <<"N", "O">>, <<"o", "f", "f">>, <<"O", "f", "f">>, <<"O", "F", "F">>}

\* the dumper's isPlainSafe and isPlainSafeFirst
PlainUnsafe == {",", "[", "]", "{", "}", ":", "#"}
PlainUnsafeFirst ==
    PlainUnsafe \cup {"-", "?", "&", "*", "!", "|", ">", "'", QUOTE, "%", "@",
                      SPACE, TAB}

RECURSIVE DoubleSingleQuotes(_)
DoubleSingleQuotes(s) ==
    IF s = <<>> THEN <<>>
    ELSE (IF Head(s) = "'" THEN <<"'", "'">> ELSE <<Head(s)>>) \o DoubleSingleQuotes(Tail(s))

\* yaml.stringify of a one-line printable string: plain when that is safe and would
\* not resolve to another type, else single-quoted; a line break ends the document
YamlStringifyString(s) ==
    IF s = <<>> THEN <<"'", "'", LF>>
    ELSE IF /\ s \notin DeprecatedBooleans
            /\ s[1] \notin PlainUnsafeFirst
            /\ s[Len(s)] \notin {SPACE, TAB}
            /\ \A i \in 1..Len(s) : s[i] \notin PlainUnsafe
            /\ YamlResolve(s) = Str(s)
    THEN s \o <<LF>>
    ELSE <<"'">> \o DoubleSingleQuotes(s) \o <<"'", LF>>

\* yaml.stringify of a non-string scalar, flow style
YamlStringifyScalar(v) ==
    IF v.t = "null" THEN <<"n", "u", "l", "l", LF>>
    ELSE IF v.t = "boolean"
    THEN (IF v.n = 1 THEN <<"t", "r", "u", "e">> ELSE <<"f", "a", "l", "s", "e">>) \o <<LF>>
    ELSE YamlNumber(v) \o <<LF>>

\* JSON.stringify of a string of printable characters
RECURSIVE JsonEscape(_)
JsonEscape(s) ==
    IF s = <<>> THEN <<>>
    ELSE (IF Head(s) \in {QUOTE, BACKSLASH} THEN <<BACKSLASH, Head(s)>> ELSE <<Head(s)>>)
         \o JsonEscape(Tail(s))
JsonStringify(s) == <<QUOTE>> \o JsonEscape(s) \o <<QUOTE>>

\* the cell has a comment in the YAML grammar: a # that opens the line or follows a
\* blank, outside a quoted scalar that opens the cell
HasYamlComment(s) ==
    LET lead == RunIn(s, {SPACE, TAB})
        body == Drop(s, lead)
        q == IF body = <<>> THEN <<>>
             ELSE IF body[1] = "'" THEN SingleQuoted(Tail(body), <<>>)
             ELSE IF body[1] = QUOTE THEN DoubleQuoted(Tail(body), <<>>)
             ELSE <<>>
        rest == IF q = <<>> THEN body ELSE <<SPACE>> \o q[2]
    IN \/ (rest # <<>> /\ rest[1] = "#" /\ q = <<>>)
       \/ \E i \in 2..Len(rest) : rest[i] = "#" /\ rest[i - 1] \in {SPACE, TAB}

-----------------------------------------------------------------------------
(* main.js: the cell codec, parseCell and stringifyCell.                   *)

\* the character at index i, or no character past the end
At(s, i) == IF i \in 1..Len(s) THEN s[i] ELSE ""

DigitsAt(s, from, count) == \A i \in from..(from + count - 1) : IsDigit(At(s, i))

\* simpleDateRegex: ^\d{4}-\d{1,2}-\d{1,2}($| |\t)
MatchesSimpleDate(s) ==
    /\ DigitsAt(s, 1, 4) /\ At(s, 5) = "-"
    /\ \E a \in 1..2 : \E b \in 1..2 :
          /\ DigitsAt(s, 6, a) /\ At(s, 6 + a) = "-" /\ DigitsAt(s, 7 + a, b)
          /\ At(s, 7 + a + b) \in {"", SPACE, TAB}

\* ^\d{1,2}\/\d{1,2}\/\d{1,2}($| |\t)
MatchesSlashDate(s) ==
    \E a \in 1..2 : \E b \in 1..2 : \E c \in 1..2 :
        /\ DigitsAt(s, 1, a) /\ At(s, 1 + a) = "/" /\ DigitsAt(s, 2 + a, b)
        /\ At(s, 2 + a + b) = "/" /\ DigitsAt(s, 3 + a + b, c)
        /\ At(s, 3 + a + b + c) \in {"", SPACE, TAB}

\* w3schoolsIsoDateRegex or extraIsoDateRegex, neither anchored: every alternative
\* starts with \d{4}-[01]\d-[0-3]\dT[0-2]\d:[0-5]\d, and that alone is the last one
matchesIso8601Date(s) ==
    \E k \in 0..(Len(s) - 16) :
        /\ DigitsAt(s, k + 1, 4) /\ s[k + 5] = "-"
        /\ s[k + 6] \in {"0", "1"} /\ IsDigit(s[k + 7]) /\ s[k + 8] = "-"
        /\ s[k + 9] \in {"0", "1", "2", "3"} /\ IsDigit(s[k + 10]) /\ s[k + 11] = "T"
        /\ s[k + 12] \in {"0", "1", "2"} /\ IsDigit(s[k + 13]) /\ s[k + 14] = ":"
        /\ s[k + 15] \in {"0", "1", "2", "3", "4", "5"} /\ IsDigit(s[k + 16])

\* string.match(/\/([igmusyv]*)$/): the index of the leftmost / that only flags
\* follow, or 0 without a match
FlagsMatch(s) ==
    LET at == {j \in 1..Len(s) :
                 s[j] = "/" /\ \A k \in (j + 1)..Len(s) : s[k] \in CellFlagChars}
    IN IF at = {} THEN 0 ELSE CHOOSE j \in at : \A k \in at : j <= k

matchesReservedPattern(string) ==
    \/ StartsWith(string, <<"=">>)
    \/ (StartsWith(string, <<"/">>) /\ FlagsMatch(string) # 0)
    \/ StartsWith(string, <<"#">>)
    \/ (RunIn(string, {Digits[i] : i \in 1..10}) >= 1
          /\ At(string, RunIn(string, {Digits[i] : i \in 1..10}) + 1) = ":")
    \/ MatchesSimpleDate(string)
    \/ MatchesSlashDate(string)
    \/ matchesIso8601Date(string)

\* /^\.?nan$/i
MatchesNan(trimmed) == Lower(trimmed) \in {<<"n", "a", "n">>, <<".", "n", "a", "n">>}

\* /^-?\.?(inf|infinity)$/ without the i flag
MatchesInfinityCaseSensitive(trimmed) ==
    LET unsigned == IF At(trimmed, 1) = "-" THEN Tail(trimmed) ELSE trimmed
        undotted == IF At(unsigned, 1) = "." THEN Tail(unsigned) ELSE unsigned
    IN undotted \in {<<"i", "n", "f">>, <<"i", "n", "f", "i", "n", "i", "t", "y">>}

\* /^-?\.?(inf|infinity)$/i
MatchesInfinity(trimmed) ==
    LET unsigned == IF At(trimmed, 1) = "-" THEN Tail(trimmed) ELSE trimmed
        undotted == IF At(unsigned, 1) = "." THEN Tail(unsigned) ELSE unsigned
    IN Lower(undotted) \in {<<"i", "n", "f">>, <<"i", "n", "f", "i", "n", "i", "t", "y">>}

\* the regex branch of parseCell: new RegExp(trimmed.slice(1, -flags[0].length), flags[1])
ParseRegExp(trimmed) ==
    NewRegExp(SubSeq(trimmed, 2, FlagsMatch(trimmed) - 1), Drop(trimmed, FlagsMatch(trimmed)))

\* the last branch of parseCell: YAML, unless the cell holds a YAML comment; a cell
\* the engine rejects is a string literal
ParseYamlCell(each) ==
    IF ~Includes(each, <<"#">>) \/ ~HasYamlComment(each)
    THEN IF IsThrown(YamlParse(each)) THEN Str(each) ELSE YamlParse(each)
    ELSE Str(each)

parseCell(each) ==
    LET trimmed == Trim(each)
    IN IF Len(trimmed) = 0 THEN Null
       ELSE IF MatchesNan(trimmed) THEN NaN
       ELSE IF MatchesInfinity(trimmed)
       THEN (IF StartsWith(trimmed, <<"-">>) THEN MinusInfinity ELSE PlusInfinity)
       ELSE IF StartsWith(trimmed, <<"/">>) /\ FlagsMatch(trimmed) # 0
       THEN ParseRegExp(trimmed)
       ELSE IF MatchesSimpleDate(each) \/ matchesIso8601Date(each) THEN NewDate(each)
       ELSE ParseYamlCell(each)

\* the string branch of stringifyCell
StringifyString(each) ==
    IF matchesReservedPattern(each) THEN JsonStringify(each)
    ELSE LET asString == YamlStringifyString(each)
         IN IF (StartsWith(asString, <<QUOTE>>) \/ StartsWith(asString, <<"'">>))
               /\ EndsWith(asString, <<LF>>)
            THEN Take(asString, Len(asString) - 1)
            ELSE IF Len(each) + 1 = Len(asString) /\ EndsWith(asString, <<LF>>)
                    /\ ~EndsWith(each, <<LF>>)
            THEN Take(asString, Len(asString) - 1)
            ELSE asString

\* stringifyCell: the cell as a string value, or what the call threw
\* (each == undefined holds for null as well as for undefined)
stringifyCell(each, options) ==
    IF each.t \in {"undefined", "null"} THEN Str(<<>>)
    ELSE IF each.t = "null"
    THEN (IF options.nullAsEmpty THEN Str(<<>>) ELSE Str(<<"n", "u", "l", "l">>))
    ELSE IF each = Str(<<>>) THEN Str(<<QUOTE, QUOTE>>)
    ELSE IF each.t = "date" THEN DateToISOString(each)
    ELSE IF each.t = "regexp" THEN Str(RegExpToString(each))
    ELSE IF each.t # "string"
    THEN LET newString == YamlStringifyScalar(each)
         IN Str(IF newString[Len(newString)] = LF
                THEN Take(newString, Len(newString) - 1) ELSE newString)
    ELSE Str(StringifyString(each.s))

-----------------------------------------------------------------------------
(* helpers.js: ensureUniqueNames.                                          *)

\* the elements of a list
Range(list) == {list[i] : i \in 1..Len(list)}

\* the first attempt only: `${each}1`, whether or not it is taken
FirstAttempt(each, incremental) == each \o ToDecimal(1)

\* the while loop: `${each}${startNumber}` for the least startNumber >= 1 that
\* incremental does not include
NextAttempt(each, incremental) ==
    each \o ToDecimal(CHOOSE n \in 1..(Len(incremental) + 1) :
                        /\ (each \o ToDecimal(n)) \notin Range(incremental)
                        /\ \A m \in 1..(n - 1) : (each \o ToDecimal(m)) \in Range(incremental))

\* the for loop over headers, incremental being what was pushed so far
RECURSIVE Incremental(_, _)
Incremental(hs, incremental) ==
    IF hs = <<>> THEN incremental
    ELSE Incremental(Tail(hs),
                     Append(incremental,
                            IF Head(hs) \in Range(incremental)
                            THEN NextAttempt(Head(hs), incremental)
                            ELSE Head(hs)))

ensureUniqueNames(hs) ==
    IF Cardinality(Range(hs)) = Len(hs) THEN hs ELSE Incremental(hs, <<>>)

-----------------------------------------------------------------------------
(* helpers.js: rowify.  An item of data is an array row (its cells) or a   *)
(* record (its keys in Object.keys order, cells[i] the value under         *)
(* keys[i]).                                                               *)

ArrayRow(cells) == [isArray |-> TRUE, keys |-> <<>>, cells |-> cells]
Record(keys, cells) == [isArray |-> FALSE, keys |-> keys, cells |-> cells]

\* eachRow[eachKey]
Lookup(eachRow, eachKey) ==
    IF \E i \in 1..Len(eachRow.keys) : eachRow.keys[i] = eachKey
    THEN eachRow.cells[CHOOSE i \in 1..Len(eachRow.keys) : eachRow.keys[i] = eachKey]
    ELSE Undefined

\* the inner for loop: every key headers does not include is pushed
RECURSIVE PushNewKeys(_, _)
PushNewKeys(hs, keys) ==
    IF keys = <<>> THEN hs
    ELSE PushNewKeys(IF Head(keys) \in Range(hs) THEN hs ELSE Append(hs, Head(keys)),
                     Tail(keys))

\* the row of a record mapped over the headers known before its own keys were added
RecordRowBefore(eachRow, before, after) ==
    [i \in 1..Len(before) |-> Lookup(eachRow, before[i])]

\* headers.map(eachKey=>eachRow[eachKey]), after the record's keys were added
RecordRow(eachRow, before, after) ==
    [i \in 1..Len(after) |-> Lookup(eachRow, after[i])]

\* the first for loop: the headers and the data rows pushed so far
RECURSIVE Collect(_, _, _)
Collect(items, hs, pushed) ==
    IF items = <<>> THEN [headers |-> hs, pushed |-> pushed]
    ELSE IF Head(items).isArray
    THEN Collect(Tail(items), hs, Append(pushed, Head(items).cells))
    ELSE Collect(Tail(items), PushNewKeys(hs, Head(items).keys),
                 Append(pushed, RecordRow(Head(items), hs,
                                          PushNewKeys(hs, Head(items).keys))))

\* while (eachRow.length < headers.length) eachRow.push(null)
PadRow(eachRow, n) ==
    IF Len(eachRow) < n THEN eachRow \o [i \in 1..(n - Len(eachRow)) |-> Null]
    ELSE eachRow

rowify(items, defaults) ==
    LET collected == Collect(items, defaults, <<>>)
    IN <<collected.headers>> \o
       [k \in 1..Len(collected.pushed) |->
           PadRow(collected.pushed[k], Len(collected.headers))]

-----------------------------------------------------------------------------
(* normal_csv.js: csvEscapeCell and the patterns of csvParseIter.          *)

\* csvEscapeCell without the enclosing quotes (the older normal_csv.js)
csvEscapeCellBare(stringData, delim) ==
    IF \/ Includes(stringData, delim) \/ Includes(stringData, <<LF>>)
       \/ Includes(stringData, <<CR>>) \/ Includes(stringData, <<QUOTE>>)
    THEN DoubleQuotes(stringData)
    ELSE stringData

csvEscapeCell(stringData, delim) ==
    IF \/ Includes(stringData, delim) \/ Includes(stringData, <<LF>>)
       \/ Includes(stringData, <<CR>>) \/ Includes(stringData, <<QUOTE>>)
    THEN <<QUOTE>> \o DoubleQuotes(stringData) \o <<QUOTE>>
    ELSE stringData

NoMatch == [ok |-> FALSE, kind |-> "none", content |-> <<>>, len |-> 0, term |-> "none"]

\* the group (delimiter|\r\n|\n|\r|$) tried at offset k of s:
\* the terminator matched and its length, or "none"
Terminator(s, k, d) ==
    IF k = Len(s) THEN [term |-> "eof", len |-> 0]
    ELSE IF s[k + 1] = d THEN [term |-> "delimiter", len |-> 1]
    ELSE IF s[k + 1] = CR /\ k + 2 <= Len(s) /\ s[k + 2] = LF THEN [term |-> "eol", len |-> 2]
    ELSE IF s[k + 1] = LF \/ s[k + 1] = CR THEN [term |-> "eol", len |-> 1]
    ELSE [term |-> "none", len |-> 0]

\* the same match measured without its terminator, as match[1] would be
MatchAtContentOnly(s, kind, lead, run, close, d) ==
    LET t == Terminator(s, lead + run + close, d)
    IN IF t.term = "none" THEN NoMatch
       ELSE [ok |-> TRUE, kind |-> kind, content |-> SubSeq(s, lead + 1, lead + run),
             len |-> lead + run + close, term |-> t.term]

\* cell content of `run` characters at offset `lead`, closed after `close` more
\* characters, followed by the terminator group
MatchAt(s, kind, lead, run, close, d) ==
    LET t == Terminator(s, lead + run + close, d)
    IN IF t.term = "none" THEN NoMatch
       ELSE [ok |-> TRUE, kind |-> kind, content |-> SubSeq(s, lead + 1, lead + run),
             len |-> lead + run + close + t.len, term |-> t.term]

\* commentPattern: ^(commentSymbol).*(\r\n|\n|\r|$), null without a commentSymbol
CommentMatch(s, sym) ==
    IF sym = <<>> \/ ~StartsWith(s, sym) THEN NoMatch
    ELSE LET n == Len(sym) + RunNotIn(Drop(s, Len(sym)), {LF, CR})
             nl == IF n = Len(s) THEN 0
                   ELSE IF s[n + 1] = CR /\ n + 2 <= Len(s) /\ s[n + 2] = LF THEN 2 ELSE 1
         IN [ok |-> TRUE, kind |-> "comment", content |-> sym, len |-> n + nl,
             term |-> IF n = Len(s) THEN "eof" ELSE "eol"]

\* simplePattern: ^([^"D\n\r]*)(D|\r\n|\n|\r|$)
SimpleMatch(s, d) == MatchAt(s, "simple", 0, RunNotIn(s, {QUOTE, d, LF, CR}), 0, d)

\* the body ((?:[^"]|"")*) at the start of s: its greedy length
RECURSIVE QuotedBodyLen(_)
QuotedBodyLen(s) ==
    IF s = <<>> THEN 0
    ELSE IF s[1] # QUOTE THEN 1 + QuotedBodyLen(Tail(s))
    ELSE IF Len(s) >= 2 /\ s[2] = QUOTE THEN 2 + QuotedBodyLen(Drop(s, 2))
    ELSE 0

\* quotePattern: ^[ \t]*"((?:[^"]|"")*)"[ \t]*(D|\r\n|\n|\r|$)
\* The body can only end at a quote that is not the first of a pair, so the greedy
\* body is the only candidate; the padding before D backtracks when D is blank.
QuoteMatch(s, d) ==
    LET lead == RunIn(s, {SPACE, TAB})
    IN IF lead = Len(s) \/ s[lead + 1] # QUOTE THEN NoMatch
       ELSE LET body == QuotedBodyLen(Drop(s, lead + 1))
                close == lead + 1 + body
            IN IF close = Len(s) \/ s[close + 1] # QUOTE THEN NoMatch
               ELSE LET pad == RunIn(Drop(s, close + 1), {SPACE, TAB})
                        fits == {p \in 0..pad :
                                   Terminator(s, close + 1 + p, d).term # "none"}
                    IN IF fits = {} THEN NoMatch
                       ELSE MatchAt(s, "quote", lead + 1, body,
                                    1 + (CHOOSE p \in fits : \A q \in fits : p >= q), d)

\* borkedQuotePattern: ^([^D\n\r]*)(D|\r\n|\n|\r|$)
BorkedMatch(s, d) == MatchAt(s, "borked", 0, RunNotIn(s, {d, LF, CR}), 0, d)

\* the if / else-if chain of one loop iteration
FirstMatch(s, d, sym) ==
    IF CommentMatch(s, sym).ok THEN CommentMatch(s, sym)
    ELSE IF SimpleMatch(s, d).ok THEN SimpleMatch(s, d)
    ELSE IF QuoteMatch(s, d).ok THEN QuoteMatch(s, d)
    ELSE BorkedMatch(s, d)

BrokenQuoteWarning == "brokenQuote"

-----------------------------------------------------------------------------
(* normal_csv.js: csvParseIter, one action per generator step.             *)

\* the first two checks of csvParseIter without the third (reserved characters)
ValidateNoReserved(types, delim) ==
    IF types.csvString # "string" THEN "typeof"
    ELSE IF types.delimiter # "string" \/ Len(delim) # 1 THEN "delimiterLength"
    ELSE "ok"

\* the three throwing checks at the head of csvParseIter
Validate(types, delim) ==
    IF types.csvString # "string" THEN "typeof"
    ELSE IF types.delimiter # "string" \/ Len(delim) # 1 THEN "delimiterLength"
    ELSE IF delim = <<LF>> \/ delim = <<CR>> \/ delim = <<QUOTE>> THEN "delimiterReserved"
    ELSE "ok"

\* the generator body runs only while its consumer asks for the next row
TokRunnable == caller = "direct" \/ (ppc \in {"header", "body"} /\ taken = Len(yielded))

\* from the call to the first loop test
TokStart ==
    /\ pc = "start"
    /\ TokRunnable
    /\ pc' = IF Validate(argTypes, delimiter) # "ok" THEN "error"
             ELSE IF Trim(csvString) = <<>> THEN "done"
             ELSE "loop"
    /\ UNCHANGED <<text, argTypes, delimiter, commentSymbol, warnings, csvString, row,
                   yielded, lineIndex, startingAtNewline, lastMatch, written>>
    /\ UNCHANGED <<log, docVars, cellVars, nameVars, rowifyVars>>

\* the row after one loop iteration pushed (or did not push) its cell
PushCell(r, m) ==
    IF m.kind = "comment" THEN r
    ELSE Append(r, IF m.kind = "quote" THEN UndoubleQuotes(m.content) ELSE m.content)

\* startingAtNewline = !match[0].endsWith(",")
StartsNewline(matched) == ~EndsWith(matched, <<COMMA>>)

\* one iteration of the while loop, up to the next loop test
TokStep ==
    /\ pc = "loop"
    /\ TokRunnable
    /\ LET m == FirstMatch(csvString, delimiter[1], commentSymbol)
           newline == StartsNewline(Take(csvString, m.len))
       IN /\ lastMatch' = m
          /\ log' = IF m.kind = "borked" /\ warnings
                    THEN Append(log, BrokenQuoteWarning) ELSE log
          /\ csvString' = Drop(csvString, m.len)
          /\ startingAtNewline' = newline
          /\ IF newline
             THEN /\ lineIndex' = lineIndex + 1
                  /\ yielded' = Append(yielded, PushCell(row, m))
                  /\ row' = <<>>
             ELSE /\ row' = PushCell(row, m)
                  /\ UNCHANGED <<lineIndex, yielded>>
          /\ pc' = IF Drop(csvString, m.len) = <<>> THEN "done" ELSE "loop"
    /\ UNCHANGED <<text, argTypes, delimiter, commentSymbol, warnings, written>>
    /\ UNCHANGED <<docVars, cellVars, nameVars, rowifyVars>>

-----------------------------------------------------------------------------
(* main.js: parseIter, one action per value its consumer asks for.         *)

\* parseIter calls csvParseIter(csvString, { delimiter, ...options }): its own
\* warnings and commentSymbol were destructured out of options, so the tokenizer
\* runs with its defaults whatever the caller of parseIter passed
TokenizerOptions(options) == [warnings |-> TRUE, commentSymbol |-> <<>>]

\* the header map without the decoding: every header is the raw cell text
HeaderNameRaw(each) == each

\* the callback of headers.map: the raw text unless the cell decodes to a string
HeaderName(each) ==
    LET decodedCell == parseCell(each)
    IN IF decodedCell.t # "string" THEN each ELSE decodedCell.s

HeaderRenameWarning == "headersNotUnique"
LongRowWarning == "rowLongerThanHeader"

\* a property name that is an array index: canonical decimal digits
IsArrayIndex(name) ==
    /\ name # <<>>
    /\ AllDigits(name)
    /\ (name[1] # "0" \/ Len(name) = 1)

LENGTH == <<"l", "e", "n", "g", "t", "h">>

\* the row Array as parseIter starts it: the decoded cells, no named property yet;
\* threw is set once an assignment to it raised
RowObject(decodedCells) == [arr |-> decodedCells, props |-> <<>>, threw |-> FALSE]

\* the array length an assignment to row.length asks for, -1 when the value is
\* not a valid array length (RangeError).  The numbers drawn are below 2^32 and
\* the Dates drawn are no valid length.
ArrayLength(v) ==
    IF v.t = "number" THEN (IF v.n >= 0 THEN v.n ELSE -1)
    ELSE IF v = Null THEN 0
    ELSE IF v.t = "boolean" THEN v.n
    ELSE IF v.t = "string"
    THEN (IF Trim(v.s) = <<>> THEN 0
          ELSE IF AllDigits(Trim(v.s)) THEN FromDecimal(Trim(v.s)) ELSE -1)
    ELSE -1

\* row[headerName] = rowValue on the row Array: an index name writes the element
\* (growing the array, the skipped slots reading as undefined), the name length
\* resizes the array or raises, any other name is an own property
SetProperty(obj, name, v) ==
    IF IsArrayIndex(name)
    THEN LET i == FromDecimal(name)
         IN [obj EXCEPT !.arr =
                IF i < Len(@) THEN [@ EXCEPT ![i + 1] = v]
                ELSE @ \o [j \in 1..(i - Len(@)) |-> Undefined] \o <<v>>]
    ELSE IF name = LENGTH
    THEN LET n == ArrayLength(v)
         IN IF n < 0 THEN [obj EXCEPT !.threw = TRUE]
            ELSE [obj EXCEPT !.arr =
                    IF n <= Len(@) THEN Take(@, n)
                    ELSE @ \o [j \in 1..(n - Len(@)) |-> Undefined]]
    ELSE [obj EXCEPT !.props = (name :> v) @@ @]

\* row[name] read back by the consumer
GetProperty(obj, name) ==
    IF IsArrayIndex(name)
    THEN (IF FromDecimal(name) < Len(obj.arr) THEN obj.arr[FromDecimal(name) + 1]
          ELSE Undefined)
    ELSE IF name = LENGTH THEN Num(Len(obj.arr))
    ELSE IF name \in DOMAIN obj.props THEN obj.props[name]
    ELSE Undefined

\* for (const [rowValue, headerName] of zip(row, headers)), from round k on.
\* zip asks both iterators for their next value each round and stops when both
\* are done; the row iterator reads the array as it is at that round.
RECURSIVE ZipAssign(_, _, _, _, _)
ZipAssign(k, rowDone, obj, hs, long) ==
    LET rowEnded == rowDone \/ k >= Len(obj.arr)
        headersEnded == k >= Len(hs)
        rowValue == IF rowEnded THEN Undefined ELSE obj.arr[k + 1]
    IN IF obj.threw \/ (rowEnded /\ headersEnded) THEN [obj |-> obj, long |-> long]
       ELSE IF headersEnded THEN ZipAssign(k + 1, rowEnded, obj, hs, TRUE)
       ELSE ZipAssign(k + 1, rowEnded, SetProperty(obj, hs[k + 1], rowValue), hs, long)

\* from the call of parseIter to `yield headers`, or to the throw
ParseHeader ==
    /\ ppc = "header"
    /\ taken = 0
    /\ pc \in {"done", "error"} \/ Len(yielded) > 0
    /\ IF Len(yielded) = 0
       THEN /\ ppc' = IF pc = "error" THEN "csvParseIter threw" ELSE "missing header"
            /\ UNCHANGED <<taken, headerRaw, headersBefore, headers, log>>
       ELSE LET first == yielded[1]
                mapped == [i \in 1..Len(first) |-> HeaderName(first[i])]
            IN IF \E i \in 1..Len(first) : IsThrown(parseCell(first[i]))
               THEN /\ ppc' = "parseCell threw"
                    /\ taken' = 1
                    /\ headerRaw' = first
                    /\ UNCHANGED <<headersBefore, headers, log>>
               ELSE /\ ppc' = "body"
                    /\ taken' = 1
                    /\ headerRaw' = first
                    /\ headersBefore' = mapped
                    /\ headers' = ensureUniqueNames(mapped)
                    /\ log' = IF pOptions.warnings /\ mapped # ensureUniqueNames(mapped)
                              THEN Append(log, HeaderRenameWarning) ELSE log
    /\ UNCHANGED <<caller, pOptions, out, longRowWarningSent>>
    /\ UNCHANGED <<tokVars, cellVars, nameVars, rowifyVars>>

\* one round of the for loop over the tokenizer's rows, up to `yield row`
ParseRow ==
    /\ ppc = "body"
    /\ taken < Len(yielded)
    /\ LET cells == yielded[taken + 1]
           decodedCells == [i \in 1..Len(cells) |-> parseCell(cells[i])]
           zipped == ZipAssign(0, FALSE, RowObject(decodedCells), headers, FALSE)
       IN /\ taken' = taken + 1
          /\ IF \E i \in 1..Len(cells) : IsThrown(decodedCells[i])
             THEN /\ ppc' = "parseCell threw"
                  /\ UNCHANGED <<out, longRowWarningSent, log>>
             ELSE IF pOptions.asObjects
             THEN /\ ppc' = IF zipped.obj.threw THEN "row.length threw" ELSE "body"
                  /\ out' = IF zipped.obj.threw THEN out ELSE Append(out, zipped.obj)
                  /\ longRowWarningSent' =
                        (longRowWarningSent \/ (zipped.long /\ pOptions.warnings))
                  /\ log' = IF zipped.long /\ ~longRowWarningSent /\ pOptions.warnings
                            THEN Append(log, LongRowWarning) ELSE log
             ELSE /\ ppc' = "body"
                  /\ out' = Append(out, RowObject(decodedCells))
                  /\ UNCHANGED <<longRowWarningSent, log>>
    /\ UNCHANGED <<caller, pOptions, headerRaw, headersBefore, headers>>
    /\ UNCHANGED <<tokVars, cellVars, nameVars, rowifyVars>>

\* the tokenizer is done and every row of it was consumed: the for loop ends
ParseEnd ==
    /\ ppc = "body"
    /\ taken = Len(yielded)
    /\ pc = "done"
    /\ ppc' = "done"
    /\ UNCHANGED <<caller, pOptions, taken, headerRaw, headersBefore, headers, out,
                   longRowWarningSent>>
    /\ UNCHANGED <<tokVars, log, cellVars, nameVars, rowifyVars>>

-----------------------------------------------------------------------------
(* main.js: iterGenerateCsv, the line written for one row of values.       *)

\* [...row].map(each=>csvEscapeCell(stringifyCell(each, options))).join(delimiter)+"\n"
\* csvEscapeCell is called without the delimiter and so escapes for its default
GeneratedLine(values, delim, options) ==
    Join([i \in 1..Len(values) |->
            csvEscapeCell(stringifyCell(values[i], options).s, <<COMMA>>)],
         delim) \o <<LF>>

-----------------------------------------------------------------------------
(* Initial values of the parts a specification does not run.               *)

StringArgs == [csvString |-> "string", delimiter |-> "string"]

TokLocals ==
    /\ csvString = text
    /\ row = <<>>
    /\ yielded = <<>>
    /\ lineIndex = 0
    /\ startingAtNewline = TRUE
    /\ lastMatch = NoMatch
    /\ pc = "start"
    /\ log = <<>>
    /\ written = <<>>

TokIdle ==
    /\ text = <<>>
    /\ argTypes = StringArgs
    /\ delimiter = <<COMMA>>
    /\ commentSymbol = <<>>
    /\ warnings = TRUE
    /\ TokLocals

DocIdle ==
    /\ caller = "direct"
    /\ pOptions = [warnings |-> TRUE, asObjects |-> TRUE]
    /\ ppc = "idle"
    /\ taken = 0
    /\ headerRaw = <<>>
    /\ headersBefore = <<>>
    /\ headers = <<>>
    /\ out = <<>>
    /\ longRowWarningSent = FALSE

CellIdle ==
    /\ nullAsEmpty = FALSE
    /\ cell = <<>>
    /\ value = Undefined
    /\ encoded = <<>>
    /\ decoded = Undefined
    /\ cpc = "idle"

RowifyIdle ==
    /\ data = <<>>
    /\ defaultHeaders = <<>>
    /\ rows = <<>>
    /\ rpc = "idle"

NamesIdle ==
    /\ names = <<>>
    /\ unique = <<>>
    /\ again = <<>>
    /\ npc = "idle"

-----------------------------------------------------------------------------
(* SpecTok: csvParseIter called directly and iterated to its end.          *)

TokChars == {"a", COMMA, ";", QUOTE, LF, CR, "#", SPACE}

GoodDelimiters == {<<COMMA>>, <<";">>}
BadDelimiters == {<<>>, <<COMMA, COMMA>>, <<QUOTE>>, <<LF>>, <<CR>>}

TokInit ==
    /\ \/ /\ text \in Strings(TokChars, MaxTextLen)
          /\ argTypes = StringArgs
          /\ delimiter \in GoodDelimiters
       \/ /\ text \in Strings(TokChars, MaxBadTextLen)
          /\ \/ argTypes = StringArgs /\ delimiter \in BadDelimiters
             \/ /\ argTypes \in {[csvString |-> "number", delimiter |-> "string"],
                                  [csvString |-> "string", delimiter |-> "number"]}
                /\ delimiter = <<COMMA>>
    /\ \/ commentSymbol = <<>> /\ warnings \in BOOLEAN
       \/ commentSymbol = <<"#">> /\ warnings = TRUE
    /\ TokLocals
    /\ DocIdle /\ CellIdle /\ NamesIdle /\ RowifyIdle

TokNext == TokStart \/ TokStep

SpecTok == TokInit /\ [][TokNext]_vars

-----------------------------------------------------------------------------
(* SpecEsc: a row of string cells is written with csvEscapeCell, joined by *)
(* the default delimiter and ended by a line feed, then tokenized.         *)

FieldChars == {"a", COMMA, QUOTE, LF, SPACE}

\* the cells of t cut after cuts[1] <= cuts[2] <= ... characters
Cut(t, cuts) ==
    [i \in 1..(Len(cuts) + 1) |->
        SubSeq(t, (IF i = 1 THEN 0 ELSE cuts[i - 1]) + 1,
                  IF i = Len(cuts) + 1 THEN Len(t) ELSE cuts[i])]

\* every row of 2..MaxRowCells cells holding at most MaxRowChars characters
WrittenRows ==
    UNION {{Cut(t, cuts) : cuts \in {c \in [1..(k - 1) -> 0..Len(t)] :
                                       \A i \in 1..(k - 2) : c[i] <= c[i + 1]}} :
           t \in Strings(FieldChars, MaxRowChars), k \in 2..MaxRowCells}

EscInit ==
    /\ written \in WrittenRows
    /\ text = Join([i \in 1..Len(written) |-> csvEscapeCell(written[i], <<COMMA>>)],
                   <<COMMA>>) \o <<LF>>
    /\ argTypes = StringArgs
    /\ delimiter = <<COMMA>>
    /\ commentSymbol = <<>>
    /\ warnings = TRUE
    /\ csvString = text
    /\ row = <<>>
    /\ yielded = <<>>
    /\ lineIndex = 0
    /\ startingAtNewline = TRUE
    /\ lastMatch = NoMatch
    /\ pc = "start"
    /\ log = <<>>
    /\ DocIdle /\ CellIdle /\ NamesIdle /\ RowifyIdle

EscNext == TokStart \/ TokStep

SpecEsc == EscInit /\ [][EscNext]_vars

-----------------------------------------------------------------------------
(* SpecTerm: csvParseIter called with valid arguments by a consumer that   *)
(* keeps asking for the next row (for...of, spread) until the generator    *)
(* returns: every step of the generator that can run does run.             *)

\* under either delimiter the other one is plain cell content
TermChars == {COMMA, ";", QUOTE, LF, "#"}

TermInit ==
    /\ text \in Strings(TermChars, MaxTermLen)
    /\ argTypes = StringArgs
    /\ delimiter \in GoodDelimiters
    /\ commentSymbol \in {<<>>, <<"#">>}
    /\ warnings = TRUE
    /\ TokLocals
    /\ DocIdle /\ CellIdle /\ NamesIdle /\ RowifyIdle

TermNext == TokStart \/ TokStep

SpecTerm == TermInit /\ [][TermNext]_vars /\ WF_vars(TermNext)

-----------------------------------------------------------------------------
(* SpecCell: a raw cell is decoded, the value encoded, the cell decoded    *)
(* again.  SpecStr: the caller hands stringifyCell a string of its own.    *)

CellChars == {"i", "n", "f", "1", "'", "/", SPACE, QUOTE}

\* cells longer than MaxCellLen: a date, a date off the calendar, quoted literals
SampleCells ==
    {<<"2", "0", "2", "3", "-", "0", "1", "-", "0", "5">>,
     <<"2", "0", "2", "3", "-", "1", "3", "-", "4", "5">>,
     <<"'", "i", "n", "f", "'">>,
     <<"'", "/", "i", "/", "'">>,
     \* spellings of NaN and of the infinities, and near misses
     <<"n", "a", "n">>, <<".", "N", "a", "N">>, <<SPACE, "N", "A", "N", SPACE>>,
     <<"-", "n", "a", "n">>, <<"n", "a", "n", "1">>,
     <<".", "i", "n", "f">>, <<"-", ".", "I", "n", "f">>, <<"-", "i", "n", "f">>,
     <<"I", "N", "F", "I", "N", "I", "T", "Y">>,
     <<SPACE, "-", "I", "n", "f", "i", "n", "i", "t", "y">>,
     <<"-", ".", "i", "n", "f", "i", "n", "i", "t", "y">>,
     <<"+", "i", "n", "f">>, <<"i", "n", "f", "i", "n", "i", "t">>}

CellParse ==
    /\ cpc = "raw"
    /\ value' = parseCell(cell)
    /\ cpc' = IF IsThrown(parseCell(cell)) THEN "parseCell threw" ELSE "parsed"
    /\ UNCHANGED <<nullAsEmpty, cell, encoded, decoded>>
    /\ UNCHANGED <<tokVars, log, docVars, nameVars, rowifyVars>>

CellStringify ==
    /\ cpc = "parsed"
    /\ encoded' = stringifyCell(value, [nullAsEmpty |-> nullAsEmpty])
    /\ cpc' = IF IsThrown(stringifyCell(value, [nullAsEmpty |-> nullAsEmpty]))
              THEN "stringifyCell threw" ELSE "encoded"
    /\ UNCHANGED <<nullAsEmpty, cell, value, decoded>>
    /\ UNCHANGED <<tokVars, log, docVars, nameVars, rowifyVars>>

CellReparse ==
    /\ cpc = "encoded"
    /\ decoded' = parseCell(encoded.s)
    /\ cpc' = IF IsThrown(parseCell(encoded.s)) THEN "second parseCell threw" ELSE "decoded"
    /\ UNCHANGED <<nullAsEmpty, cell, value, encoded>>
    /\ UNCHANGED <<tokVars, log, docVars, nameVars, rowifyVars>>

CellInit ==
    /\ nullAsEmpty \in BOOLEAN
    /\ cell \in Strings(CellChars, MaxCellLen) \cup SampleCells
    /\ value = Undefined
    /\ encoded = Undefined
    /\ decoded = Undefined
    /\ cpc = "raw"
    /\ TokIdle /\ DocIdle /\ NamesIdle /\ RowifyIdle

CellNext == CellParse \/ CellStringify \/ CellReparse

SpecCell == CellInit /\ [][CellNext]_vars

StrInit ==
    /\ nullAsEmpty \in BOOLEAN
    /\ cell = <<>>
    /\ value \in {Str(s) : s \in Strings(CellChars, MaxCellLen)}
    /\ encoded = Undefined
    /\ decoded = Undefined
    /\ cpc = "parsed"
    /\ TokIdle /\ DocIdle /\ NamesIdle /\ RowifyIdle

StrNext == CellStringify \/ CellReparse

SpecStr == StrInit /\ [][StrNext]_vars

-----------------------------------------------------------------------------
(* SpecNames: ensureUniqueNames applied to a list of header strings.       *)

NameChars == {"a", "1"}
SampleHeaders == {<<<<"a">>, <<"a">>, <<"b">>>>}

NamesApply ==
    /\ npc = "in"
    /\ unique' = ensureUniqueNames(names)
    /\ npc' = "out"
    /\ UNCHANGED <<names, again>>
    /\ UNCHANGED <<tokVars, log, docVars, cellVars, rowifyVars>>

\* the caller hands the result to ensureUniqueNames once more
NamesApplyAgain ==
    /\ npc = "out"
    /\ again' = ensureUniqueNames(unique)
    /\ npc' = "again"
    /\ UNCHANGED <<names, unique>>
    /\ UNCHANGED <<tokVars, log, docVars, cellVars, rowifyVars>>

NamesInit ==
    /\ names \in Strings(Strings(NameChars, MaxNameLen), MaxNames) \cup SampleHeaders
    /\ unique = <<>>
    /\ again = <<>>
    /\ npc = "in"
    /\ TokIdle /\ DocIdle /\ CellIdle /\ RowifyIdle

NamesNext == NamesApply \/ NamesApplyAgain

SpecNames == NamesInit /\ [][NamesNext]_vars

-----------------------------------------------------------------------------
(* SpecDoc: parseIter called on a document and iterated to its end.        *)

DocChars == {"1", "n", SPACE, COMMA, LF}

\* documents longer than MaxDocLen: a repeated header over a long row, and a
\* header cell that parseCell throws on
SampleDocs ==
    {<<"n", COMMA, "n", LF, "1", COMMA, "1", COMMA, "1">>,
     <<"/", "i", "i">>,
     \* header n,nn over a long row and a short row
     <<"n", COMMA, "n", "n", LF, "1", COMMA, "1", COMMA, "1", LF, "1">>,
     \* a header name that is an array index
     <<"n", COMMA, "n", COMMA, "1", LF, "n", COMMA, "1", COMMA, "n">>,
     \* a broken quote in the header and in a data row
     <<"n", QUOTE, LF, "1", QUOTE>>,
     \* the header name length, over a valid and over an invalid array length
     <<"l", "e", "n", "g", "t", "h", COMMA, "n", LF, "1", COMMA, "n", LF, "n", COMMA, "n">>}

DocInit ==
    /\ \/ /\ text \in Strings(DocChars, MaxDocLen) \cup SampleDocs
          /\ argTypes = StringArgs
          /\ delimiter = <<COMMA>>
       \/ /\ text \in Strings(DocChars, MaxBadTextLen)
          /\ \/ argTypes = StringArgs /\ delimiter \in BadDelimiters
             \/ /\ argTypes \in {[csvString |-> "number", delimiter |-> "string"],
                                  [csvString |-> "string", delimiter |-> "number"]}
                /\ delimiter = <<COMMA>>
    /\ pOptions \in [warnings : BOOLEAN, asObjects : BOOLEAN]
    /\ warnings = TokenizerOptions(pOptions).warnings
    /\ commentSymbol = TokenizerOptions(pOptions).commentSymbol
    /\ TokLocals
    /\ caller = "parseIter"
    /\ ppc = "header"
    /\ taken = 0
    /\ headerRaw = <<>>
    /\ headersBefore = <<>>
    /\ headers = <<>>
    /\ out = <<>>
    /\ longRowWarningSent = FALSE
    /\ CellIdle /\ NamesIdle /\ RowifyIdle

DocNext == TokStart \/ TokStep \/ ParseHeader \/ ParseRow \/ ParseEnd

SpecDoc == DocInit /\ [][DocNext]_vars

-----------------------------------------------------------------------------
(* SpecRows: rowify applied to a mix of array rows and records.            *)

Keys == {"a", "b"}
CellValues == {Num(1), Num(2)}

\* the lists of distinct keys
KeyLists == {ks \in Strings(Keys, Cardinality(Keys)) :
                \A i, j \in 1..Len(ks) : i # j => ks[i] # ks[j]}

Items ==
    {ArrayRow([i \in 1..n |-> Num(1)]) : n \in 0..MaxArrayLen}
    \cup UNION {{Record(ks, cells) : cells \in [1..Len(ks) -> CellValues]} : ks \in KeyLists}

Rowify ==
    /\ rpc = "in"
    /\ rows' = rowify(data, defaultHeaders)
    /\ rpc' = "out"
    /\ UNCHANGED <<data, defaultHeaders>>
    /\ UNCHANGED <<tokVars, log, docVars, cellVars, nameVars>>

RowsInit ==
    /\ data \in Strings(Items, MaxData)
    /\ defaultHeaders \in Strings(Keys, MaxDefaults)
    /\ rows = <<>>
    /\ rpc = "in"
    /\ TokIdle /\ DocIdle /\ CellIdle /\ NamesIdle

RowsNext == Rowify

SpecRows == RowsInit /\ [][RowsNext]_vars

-----------------------------------------------------------------------------
(* SpecOut: a row of strings is written by iterGenerateCsv under a valid   *)
(* delimiter and the line is tokenized under the same delimiter.           *)

OutChars == {"a", ";", COMMA, QUOTE}

\* every row of 1..MaxRowCells strings holding at most MaxRowChars characters
OutRows ==
    UNION {{Cut(t, cuts) : cuts \in {c \in [1..(k - 1) -> 0..Len(t)] :
                                       \A i \in 1..(k - 2) : c[i] <= c[i + 1]}} :
           t \in Strings(OutChars, MaxRowChars), k \in 1..MaxRowCells}

OutInit ==
    /\ written \in OutRows
    /\ delimiter \in GoodDelimiters
    /\ text = GeneratedLine([i \in 1..Len(written) |-> Str(written[i])], delimiter,
                            [nullAsEmpty |-> FALSE])
    /\ argTypes = StringArgs
    /\ commentSymbol = <<>>
    /\ warnings = TRUE
    /\ csvString = text
    /\ row = <<>>
    /\ yielded = <<>>
    /\ lineIndex = 0
    /\ startingAtNewline = TRUE
    /\ lastMatch = NoMatch
    /\ pc = "start"
    /\ log = <<>>
    /\ DocIdle /\ CellIdle /\ NamesIdle /\ RowifyIdle

OutNext == TokStart \/ TokStep

SpecOut == OutInit /\ [][OutNext]_vars

-----------------------------------------------------------------------------
(* Claims about the tokenizer, checked under SpecTok.                      *)

\* the iteration that just ran pushed a cell (it did not match a comment)
CellPushed == lastMatch.ok /\ lastMatch.kind # "comment"

\* the offset in text the next match starts at begins a line
AtLineStart ==
    LET p == Len(text) - Len(csvString)
    IN p = 0 \/ text[p] \in {LF, CR}

\* C4: when the tokenizer has run to completion, every cell it matched belongs to
\* a yielded row: no cell is left in a row that was never yielded, also when the
\* text ends right after a delimiter.
C4_EveryMatchedCellIsYielded == pc = "done" => row = <<>>

\* C5: for every valid delimiter, the iteration that pushed a cell ended the row
\* (yielded it) exactly when the terminator it matched was a line terminator or
\* the end of input, never when it was the delimiter.
C5_RowEndsOnlyAtLineEnd ==
    CellPushed => (startingAtNewline <=> lastMatch.term \in {"eol", "eof"})

\* C7: a line that begins with the comment prefix contributes no row: the
\* iteration that consumes it yields nothing.
C7_CommentLineYieldsNoRow ==
    [][(pc = "loop" /\ AtLineStart /\ CommentMatch(csvString, commentSymbol).ok)
         => yielded' = yielded]_vars

-----------------------------------------------------------------------------
(* Claims about written rows, checked under SpecEsc.                       *)

\* C6: a row of at least two string cells, each written with csvEscapeCell,
\* joined by the default delimiter and ended by a line feed, tokenizes under the
\* default delimiter to exactly that row and nothing else; the tokenizer does not
\* raise and warns of no broken quote.
C6_EscapedRowTokenizesBack ==
    /\ pc # "error"
    /\ log = <<>>
    /\ pc = "done" => yielded = <<written>>
    /\ Len(yielded) <= 1

\* the row of  "a"  and an empty cell was written as  """a""",  and read back
C6_Witness ==
    /\ pc = "done"
    /\ written = <<<<QUOTE, "a", QUOTE>>, <<>>>>
    /\ text = <<QUOTE, QUOTE, QUOTE, "a", QUOTE, QUOTE, QUOTE, COMMA, LF>>
    /\ yielded = <<written>>

-----------------------------------------------------------------------------
(* Claims about the document decoder, checked under SpecDoc.               *)

\* the text is not a string, or the delimiter is not one character, or is reserved
Fatal ==
    \/ argTypes.csvString # "string"
    \/ argTypes.delimiter # "string"
    \/ Len(delimiter) # 1
    \/ delimiter[1] \in {QUOTE, LF, CR}

\* a valid call on an empty or whitespace-only document
Blank == ~Fatal /\ Trim(text) = <<>>

\* C8: under a delimiter that is not exactly one character or is a quote, LF or
\* CR, and under a non-string text, the tokenizer raises at its first step and
\* parseIter raises with it; on an empty or whitespace-only document the
\* tokenizer ends with zero rows and parseIter raises the missing-header error.
\* In all these cases no row, no header and no data row is ever yielded, and the
\* call cannot stop short of the error.
C8_FatalBeforeAnyRow ==
    /\ (Fatal \/ Blank) => yielded = <<>> /\ headers = <<>> /\ out = <<>>
    /\ Fatal => pc \in {"start", "error"} /\ ppc \in {"header", "csvParseIter threw"}
    /\ Blank => pc \in {"start", "done"} /\ ppc \in {"header", "missing header"}
    /\ ((Fatal \/ Blank) /\ ppc = "header") => ENABLED (TokStart \/ ParseHeader)

\* a whitespace-only document ended in the missing-header error
C8_Witness ==
    /\ text = <<SPACE, LF>>
    /\ pc = "done"
    /\ yielded = <<>>
    /\ ppc = "missing header"

HeaderYielded ==
    \/ ppc \in {"body", "done", "row.length threw"}
    \/ (ppc = "parseCell threw" /\ headersBefore # <<>>)

\* C9 as stated: each header is the decoded value when that is not a string, and
\* the raw cell text when the cell decodes to a string.
C9_HeaderKeepsNonStringDecoded ==
    HeaderYielded =>
        /\ Len(headersBefore) = Len(headerRaw)
        /\ \A i \in 1..Len(headerRaw) :
              Str(headersBefore[i]) = IF parseCell(headerRaw[i]).t # "string"
                                      THEN parseCell(headerRaw[i])
                                      ELSE Str(headerRaw[i])

\* C9, amended: each header cell is decoded on its own; the header is always a
\* string, the decoded string when the cell decodes to a string and the raw cell
\* text when it decodes to anything else.
C9_HeaderKeepsDecodedString ==
    HeaderYielded =>
        /\ Len(headersBefore) = Len(headerRaw)
        /\ \A i \in 1..Len(headerRaw) :
              Str(headersBefore[i]) = IF parseCell(headerRaw[i]).t = "string"
                                      THEN parseCell(headerRaw[i])
                                      ELSE Str(headerRaw[i])

\* the header row " n,1": the first header is the decoded string n, not the raw
\* text, and the second is the raw text 1
C9_Witness ==
    /\ HeaderYielded
    /\ headerRaw = <<<<SPACE, "n">>, <<"1">>>>
    /\ headersBefore = <<<<"n">>, <<"1">>>>

\* C12: every data row yielded holds exactly one value per header position: its
\* length is the header length, and under each header name it holds the decoded
\* cell of that position, or Null where the row had no cell.
C12_RowHoldsOneValuePerHeader ==
    \A k \in 1..Len(out) :
        LET cells == yielded[k + 1]
        IN /\ Len(out[k].arr) = Len(headers)
           /\ pOptions.asObjects =>
                \A i \in 1..Len(headers) :
                    GetProperty(out[k], headers[i]) =
                        IF i <= Len(cells) THEN parseCell(cells[i]) ELSE Null

\* C13: in asObjects mode, for every yielded row and every position below both
\* the header length and the row's cell count, the array view row[i] and the
\* object view row[header[i]] are both the decoded cell of that position,
\* whatever the header name; no header name makes the decoder raise.
C13_ArrayAndObjectViewsAgree ==
    /\ ppc # "row.length threw"
    /\ pOptions.asObjects =>
         \A k \in 1..Len(out) :
             LET cells == yielded[k + 1]
             IN \A i \in 1..Min(Len(headers), Len(cells)) :
                   /\ GetProperty(out[k], ToDecimal(i - 1)) = parseCell(cells[i])
                   /\ GetProperty(out[k], headers[i]) = parseCell(cells[i])

\* how many times the warning was emitted so far
Emitted(warning) == Cardinality({i \in 1..Len(log) : log[i] = warning})

\* C14: within one decode call each kind of advisory warning (broken quote,
\* duplicate-header renaming, ragged row) is emitted at most once.
C14_EachWarningAtMostOnce ==
    \A warning \in {BrokenQuoteWarning, HeaderRenameWarning, LongRowWarning} :
        Emitted(warning) <= 1

\* C15: when parseIter is called with warnings disabled, no warning of any kind
\* is emitted during the call, the tokenizer's broken-quote warning included.
C15_WarningsOffIsSilent == ~pOptions.warnings => log = <<>>

-----------------------------------------------------------------------------
(* Claims about rowify, checked under SpecRows.                            *)

\* C16: after rowify every returned row, the header row and each data row, has a
\* length equal to the header length.
C16_EveryRowHasHeaderLength ==
    rpc = "out" => \A k \in 1..Len(rows) : Len(rows[k]) = Len(rows[1])

\* the keys of the records of data, in data order
RECURSIVE KeysInOrder(_)
KeysInOrder(items) ==
    IF items = <<>> THEN <<>> ELSE Head(items).keys \o KeysInOrder(Tail(items))

\* keys[i] is the first occurrence of a key that the defaults do not hold
FirstNew(keys, i) ==
    /\ keys[i] \notin Range(defaultHeaders)
    /\ \A j \in 1..(i - 1) : keys[j] # keys[i]

\* C17: the header row is the default headers followed by every record key not
\* already present, in order of first occurrence; and in every row derived from
\* a record, the cell at position i is the record's value for header i whenever
\* the record has that key.
C17_HeaderIsUnionAndRecordCellsMatch ==
    rpc = "out" =>
        LET keys == KeysInOrder(data)
            news == {i \in 1..Len(keys) : FirstNew(keys, i)}
            header == rows[1]
        IN /\ Len(rows) = Len(data) + 1
           /\ Len(header) = Len(defaultHeaders) + Cardinality(news)
           /\ SubSeq(header, 1, Len(defaultHeaders)) = defaultHeaders
           /\ \A i, j \in news :
                 \E m, n \in (Len(defaultHeaders) + 1)..Len(header) :
                     /\ header[m] = keys[i]
                     /\ header[n] = keys[j]
                     /\ (i < j => m < n)
           /\ \A k \in 1..Len(data) : \A i \in 1..Len(header) :
                 (~data[k].isArray /\ header[i] \in Range(data[k].keys)) =>
                     /\ i <= Len(rows[k + 1])
                     /\ rows[k + 1][i] = Lookup(data[k], header[i])

\* the record {b: 2, a: 1} follows the record {a: 1}: the header is a, b and the
\* second row holds the value of b, first found in it, and of a
C17_Witness ==
    /\ rpc = "out"
    /\ defaultHeaders = <<>>
    /\ data = <<Record(<<"a">>, <<Num(1)>>), Record(<<"b", "a">>, <<Num(2), Num(1)>>)>>
    /\ rows = <<<<"a", "b">>, <<Num(1), Null>>, <<Num(1), Num(2)>>>>

-----------------------------------------------------------------------------
(* Claims about written lines, checked under SpecOut.                      *)

\* the cells the tokenizer matched: those of the yielded rows and of the row
\* being filled
RECURSIVE CellCount(_)
CellCount(rs) == IF rs = <<>> THEN 0 ELSE Len(Head(rs)) + CellCount(Tail(rs))

\* C19: for every valid delimiter d, the line iterGenerateCsv writes for a row
\* tokenizes under d to exactly as many cells as the row had values: a cell
\* whose text contains d is written quoted.
C19_LineHasOneCellPerValue ==
    pc = "done" => CellCount(yielded) + Len(row) = Len(written)

-----------------------------------------------------------------------------
(* Claims about termination, checked under SpecTerm.                       *)

\* C22: on every text with a valid delimiter, each loop iteration matches one of
\* the four patterns and consumes at least one character, so the remaining text
\* strictly shrinks, and the tokenizer ends: at once on a blank text, and with
\* nothing left of the text otherwise.
C22_TokenizerTerminates ==
    /\ [][pc = "loop" =>
            /\ lastMatch'.ok
            /\ lastMatch'.len >= 1
            /\ csvString' = Drop(csvString, lastMatch'.len)
            /\ Len(csvString') < Len(csvString)]_vars
    /\ <>(pc = "done" /\ (Trim(text) = <<>> \/ csvString = <<>>))

\* the text  ,";  ended after two iterations, an empty unquoted cell and then
\* the malformed-quote pattern up to the end of the text
C22_Witness ==
    /\ pc = "done"
    /\ text = <<COMMA, QUOTE, ";">>
    /\ delimiter = <<COMMA>>
    /\ csvString = <<>>
    /\ lastMatch.kind = "borked"
    /\ log = <<BrokenQuoteWarning>>
    /\ Len(yielded) = 1 /\ Len(yielded[1]) = 2

-----------------------------------------------------------------------------
(* Claims about the cell codec, checked under SpecCell and SpecStr.        *)

\* C1: every value parseCell returned for a raw cell is encoded by stringifyCell
\* to a cell that parseCell decodes to an equal value.
C1_DecodeEncodeRoundTrip ==
    /\ cpc \notin {"stringifyCell threw", "second parseCell threw"}
    /\ cpc = "decoded" => decoded = value

\* C2: every string is encoded to a cell that decodes to that same string, never
\* to a value of another type.
C2_StringsDecodeAsStrings ==
    /\ value.t = "string" => cpc \notin {"stringifyCell threw", "second parseCell threw"}
    /\ (value.t = "string" /\ cpc = "decoded") => (decoded.t = "string" /\ decoded.s = value.s)

\* C3: parseCell returns a value for every cell and never raises; a cell no typed
\* reading of which can be built (a regex or a date that is not valid) comes back
\* as the original string.
C3_ParseCellIsTotal ==
    /\ cpc # "parseCell threw"
    /\ cpc = "parsed" /\ value = InvalidDate => value = Str(cell)

\* C18: stringifyCell maps Null to the four-character cell null when nullAsEmpty
\* is not set, and to the empty cell when it is set.
C18_NullEncodesAsNullUnlessAsEmpty ==
    (value = Null /\ cpc \in {"encoded", "decoded"}) =>
        encoded = Str(IF nullAsEmpty THEN <<>> ELSE <<"n", "u", "l", "l">>)

\* C20: a cell that is empty after trimming decodes to Null; a trimmed cell
\* that is, in any letter case, nan or .nan decodes to NaN; a trimmed cell that
\* is, in any letter case, inf or infinity after an optional . decodes to
\* +Infinity, and with a leading - before them to -Infinity.
C20_ReservedLiteralsDecodeFirst ==
    cpc # "raw" =>
        LET spelled == Lower(Trim(cell))
            nan == <<"n", "a", "n">>
            inf == <<"i", "n", "f">>
            infinity == <<"i", "n", "f", "i", "n", "i", "t", "y">>
        IN /\ Trim(cell) = <<>> => value = Null
           /\ spelled \in {nan, <<".">> \o nan} => value = NaN
           /\ spelled \in {inf, infinity, <<".">> \o inf, <<".">> \o infinity}
                => value = PlusInfinity
           /\ spelled \in {<<"-">> \o inf, <<"-">> \o infinity,
                           <<"-", ".">> \o inf, <<"-", ".">> \o infinity}
                => value = MinusInfinity

\* the cell -.Inf was decoded to -Infinity
C20_Witness ==
    /\ cpc = "parsed"
    /\ cell = <<"-", ".", "I", "n", "f">>
    /\ value = MinusInfinity

-----------------------------------------------------------------------------
(* Claims about the header names, checked under SpecNames.                 *)

\* C10: for every list of header strings, the output of ensureUniqueNames is as
\* long as the input and holds no two equal names: duplicates are renamed, and
\* the input is never rejected.
C10_NamesUniqueSameLength ==
    npc \in {"out", "again"} =>
        /\ Len(unique) = Len(names)
        /\ \A i, j \in 1..Len(unique) : i # j => unique[i] # unique[j]

\* a name was renamed twice over: a, a, a1 became a, a1, a11
C10_Witness ==
    /\ npc = "out"
    /\ names = <<<<"a">>, <<"a">>, <<"a", "1">>>>
    /\ unique = <<<<"a">>, <<"a", "1">>, <<"a", "1", "1">>>>

\* C11: ensureUniqueNames is idempotent: applied to its own result it returns
\* that result unchanged.
C11_UniqueNamesIdempotent == npc = "again" => again = unique

\* the second application left a, a1, a11 (renamed from a, a, a1) as it was
C11_Witness ==
    /\ npc = "again"
    /\ names = <<<<"a">>, <<"a">>, <<"a", "1">>>>
    /\ unique # names
    /\ again = <<<<"a">>, <<"a", "1">>, <<"a", "1", "1">>>>

\* C21: ensureUniqueNames renames only repeated occurrences: the first occurrence
\* of each distinct input name stays unchanged at its position in the output.
C21_FirstOccurrencesKeepTheirName ==
    npc \in {"out", "again"} =>
        \A i \in 1..Len(names) :
            (\A j \in 1..(i - 1) : names[j] # names[i]) =>
                (i <= Len(unique) /\ unique[i] = names[i])

====
